---- MODULE Spec2Model ----
(***************************************************************************)
(* State-machine model of the CRM backend (src/main.py, src/database.py,   *)
(* src/models.py): the storage gateway, the document normalizer and the    *)
(* record / configuration handlers.  Every `await` on the store is one     *)
(* atomic step of a handler; the code between two awaits runs with the     *)
(* step that follows the first of them.                                    *)
(***************************************************************************)
EXTENDS Integers, Sequences, FiniteSets, TLC

VARIABLES
    client,     \* database.py global `client`
    database,   \* database.py global `database`
    lifecycle,  \* application phase: "init", "serving", "failed", "stopped"
    probe,      \* outcome of the latest direct call of a collection accessor
    clock,      \* wall clock in milliseconds (what datetime.utcnow() reads)
    nextOid,    \* next ObjectId the driver generates
    records,    \* the crm_records collection, in natural (insertion) order
    config,     \* the config collection, in natural (insertion) order
    req,        \* the request in flight on every worker slot, with its locals
    resp,       \* the response sent last
    deleted,    \* history: ids for which DELETE /crm/records/{id} returned 200
    lastPost,   \* history: payload of the last POST /config that returned 201,
                \* None once a later store write touched the config collection
    norm        \* direct calls of serialize_mongo_document: their count, the
                \* document given first, the latest argument and its result

vars == <<client, database, lifecycle, probe, clock, nextOid, records, config,
          req, resp, deleted, lastPost, norm>>

----------------------------------------------------------------------------
(* Bounds *)

NumProcs == 2
MaxClock == 1
MaxRecords == 2
MaxConfigInserts == 2
MaxSeqInserts == 2
MaxBatch == 2
MaxListRecords == 7
MaxSkip == 3
MaxLimit == 3
MaxDepth == 2
MaxItems == 2
MaxCalls == 2

Procs == 1..NumProcs

----------------------------------------------------------------------------
(* Values: Python values carry their type, on which the code dispatches. *)

None == [t |-> "none"]
Str(s) == [t |-> "str", v |-> s]
Num(n) == [t |-> "num", v |-> n]
Oid(n) == [t |-> "oid", v |-> n]
Dt(n) == [t |-> "dt", v |-> n]
DictV(d) == [t |-> "dict", v |-> d]
ListV(s) == [t |-> "list", v |-> s]

\* Merge of two mappings, b's entries winning (dict.update / $set).
Merged(a, b) ==
    [k \in (DOMAIN a) \cup (DOMAIN b) |-> IF k \in DOMAIN b THEN b[k] ELSE a[k]]

Without(d, keys) == [k \in (DOMAIN d) \ keys |-> d[k]]

----------------------------------------------------------------------------
(* bson.ObjectId: 12 bytes, written as 24 hexadecimal digits. *)

OidLen == 24
HexDigits == <<"0", "1", "2", "3", "4", "5", "6", "7", "8", "9",
               "a", "b", "c", "d", "e", "f">>
UpperHexDigits == <<"0", "1", "2", "3", "4", "5", "6", "7", "8", "9",
                    "A", "B", "C", "D", "E", "F">>

\* The value of every hexadecimal digit, of either case.
HexValues ==
    ("0" :> 0) @@ ("1" :> 1) @@ ("2" :> 2) @@ ("3" :> 3) @@
    ("4" :> 4) @@ ("5" :> 5) @@ ("6" :> 6) @@ ("7" :> 7) @@
    ("8" :> 8) @@ ("9" :> 9) @@ ("a" :> 10) @@ ("b" :> 11) @@
    ("c" :> 12) @@ ("d" :> 13) @@ ("e" :> 14) @@ ("f" :> 15) @@
    ("A" :> 10) @@ ("B" :> 11) @@ ("C" :> 12) @@ ("D" :> 13) @@
    ("E" :> 14) @@ ("F" :> 15)

IsHexChar(c) == c \in DOMAIN HexValues

HexVal(c) == HexValues[c]

\* ObjectId(record_id) raises unless record_id is 24 hexadecimal digits.
IsValidObjectId(s) == Len(s) = OidLen /\ \A i \in 1..Len(s) : IsHexChar(s[i])

\* The number the first n digits of s write.
RECURSIVE HexValue(_, _)
HexValue(s, n) ==
    IF n = 0 THEN 0 ELSE 16 * HexValue(s, n - 1) + HexVal(s[n])

\* ObjectId(record_id) for a valid record_id.
ObjectId(s) == HexValue(s, Len(s))

RECURSIVE HexStr(_, _)
HexStr(n, len) ==
    IF len = 0 THEN "" ELSE HexStr(n \div 16, len - 1) \o HexDigits[(n % 16) + 1]

\* str(ObjectId): 24 lower-case hexadecimal digits.
StrOfObjectId(n) == HexStr(n, OidLen)

\* datetime.isoformat(): the fraction is left out when it is zero.
IsoFormat(n) ==
    IF n = 0 THEN "1970-01-01T00:00:00"
    ELSE "1970-01-01T00:00:00.00" \o HexDigits[n + 1] \o "000"

----------------------------------------------------------------------------
(* Document Normalizer *)

\* Mutant: any other value is written with repr(), which quotes a string, so
\* a second pass quotes it again.
RECURSIVE serialize_repr(_)
serialize_repr(doc) ==
    IF doc = None THEN None
    ELSE [key \in DOMAIN doc |->
            LET value == doc[key] IN
            CASE value.t = "oid" -> Str(StrOfObjectId(value.v))
              [] value.t = "dt" -> Str(IsoFormat(value.v))
              [] value.t = "dict" -> DictV(serialize_repr(value.v))
              [] value.t = "list" ->
                    ListV([i \in DOMAIN value.v |->
                            LET item == value.v[i] IN
                            CASE item.t = "dict" -> DictV(serialize_repr(item.v))
                              [] item.t = "oid" -> Str(StrOfObjectId(item.v))
                              [] item.t = "dt" -> Str(IsoFormat(item.v))
                              [] OTHER -> item])
              [] value.t = "str" -> Str("'" \o value.v \o "'")
              [] OTHER -> value]

RECURSIVE serialize_mongo_document(_)
serialize_mongo_document(doc) ==
    IF doc = None THEN None
    ELSE [key \in DOMAIN doc |->
            LET value == doc[key] IN
            CASE value.t = "oid" -> Str(StrOfObjectId(value.v))
              [] value.t = "dt" -> Str(IsoFormat(value.v))
              [] value.t = "dict" -> DictV(serialize_mongo_document(value.v))
              [] value.t = "list" ->
                    ListV([i \in DOMAIN value.v |->
                            LET item == value.v[i] IN
                            CASE item.t = "dict" -> DictV(serialize_mongo_document(item.v))
                              [] item.t = "oid" -> Str(StrOfObjectId(item.v))
                              [] item.t = "dt" -> Str(IsoFormat(item.v))
                              [] OTHER -> item])
              [] OTHER -> value]

----------------------------------------------------------------------------
(* Storage Gateway (src/database.py) *)

COLLECTION_NAME == "crm_records"
CONFIG_COLLECTION_NAME == "config"

ConnectOutcomes == {"connected", "ping_failed", "client_failed"}

\* connect_to_mongo: the globals it leaves behind and whether it raised.  The
\* two globals are assigned before the ping is awaited.
connect_to_mongo(outcome) ==
    CASE outcome = "client_failed" ->
            [client |-> client, database |-> database, raised |-> TRUE]
      [] outcome = "ping_failed" ->
            [client |-> "client", database |-> "db", raised |-> TRUE]
      [] OTHER ->
            [client |-> "client", database |-> "db", raised |-> FALSE]

\* get_collection: the handle, or the exception it raises.
get_collection ==
    IF database = "None" THEN "NotConnected" ELSE COLLECTION_NAME

get_config_collection ==
    IF database = "None" THEN "NotConnected" ELSE CONFIG_COLLECTION_NAME

\* @app.on_event("startup"): an exception here aborts the application.
startup_db_client ==
    /\ lifecycle = "init"
    /\ \E outcome \in ConnectOutcomes :
          LET r == connect_to_mongo(outcome) IN
          /\ client' = r.client
          /\ database' = r.database
          /\ lifecycle' = IF r.raised THEN "failed" ELSE "serving"
    /\ UNCHANGED <<probe, clock, nextOid, records, config, req, resp, deleted, lastPost,
                   norm>>

\* @app.on_event("shutdown"): close_mongo_connection closes the client and
\* leaves both globals as they are.
shutdown_db_client ==
    /\ lifecycle = "serving"
    /\ \A p \in Procs : req[p].pc = "done"
    /\ lifecycle' = "stopped"
    /\ UNCHANGED <<client, database, probe, clock, nextOid, records, config,
                   req, resp, deleted, lastPost, norm>>

\* A direct call of an accessor, in whatever phase the application is.
call_get_collection ==
    /\ probe' = [fn |-> "get_collection", result |-> get_collection]
    /\ UNCHANGED <<client, database, lifecycle, clock, nextOid, records, config,
                   req, resp, deleted, lastPost, norm>>

call_get_config_collection ==
    /\ probe' = [fn |-> "get_config_collection", result |-> get_config_collection]
    /\ UNCHANGED <<client, database, lifecycle, clock, nextOid, records, config,
                   req, resp, deleted, lastPost, norm>>

\* Time passes.
Tick ==
    /\ clock < MaxClock
    /\ clock' = clock + 1
    /\ UNCHANGED <<client, database, lifecycle, probe, nextOid, records, config,
                   req, resp, deleted, lastPost, norm>>

----------------------------------------------------------------------------
(* The store's collection operations (Motor / MongoDB), on a collection held *)
(* as the sequence of its documents in natural order.                        *)

HasId(coll, oid) == \E i \in 1..Len(coll) : coll[i]["_id"] = Oid(oid)

IndexOfId(coll, oid) == CHOOSE i \in 1..Len(coll) : coll[i]["_id"] = Oid(oid)

RemoveAt(coll, i) == SubSeq(coll, 1, i - 1) \o SubSeq(coll, i + 1, Len(coll))

\* collection.find_one({"_id": oid})
find_one_by_id(coll, oid) ==
    IF HasId(coll, oid) THEN coll[IndexOfId(coll, oid)] ELSE None

\* collection.find_one({})
find_one(coll) == IF coll = <<>> THEN None ELSE coll[1]

\* collection.insert_one(doc): the driver adds the generated _id.
insert_one(coll, doc, oid) == Append(coll, Merged(doc, [_id |-> Oid(oid)]))

\* Mutant: the matched document is replaced by the fields instead of merged.
update_one_replacing(coll, oid, fields) ==
    IF ~HasId(coll, oid) THEN [coll |-> coll, modified_count |-> 0]
    ELSE LET i == IndexOfId(coll, oid)
             new == Merged(fields, [_id |-> Oid(oid)])
         IN  [coll |-> [coll EXCEPT ![i] = new],
              modified_count |-> IF new = coll[i] THEN 0 ELSE 1]

\* Mutant: upsert=True, an unmatched filter inserts the document.
update_one_upsert(coll, oid, fields) ==
    IF ~HasId(coll, oid)
    THEN [coll |-> Append(coll, Merged(fields, [_id |-> Oid(oid)])),
          modified_count |-> 0]
    ELSE LET i == IndexOfId(coll, oid)
             new == Merged(coll[i], fields)
         IN  [coll |-> [coll EXCEPT ![i] = new],
              modified_count |-> IF new = coll[i] THEN 0 ELSE 1]

\* collection.update_one({"_id": oid}, {"$set": fields}), no upsert.
update_one(coll, oid, fields) ==
    IF ~HasId(coll, oid) THEN [coll |-> coll, modified_count |-> 0]
    ELSE LET i == IndexOfId(coll, oid)
             new == Merged(coll[i], fields)
         IN  [coll |-> [coll EXCEPT ![i] = new],
              modified_count |-> IF new = coll[i] THEN 0 ELSE 1]

\* Mutant: upsert=True, an empty collection takes the document as a new one.
replace_one_upsert(coll, doc) ==
    IF coll = <<>>
    THEN [coll |-> <<Merged(doc, [_id |-> Oid(0)])>>, modified_count |-> 0]
    ELSE LET new == Merged(Without(doc, {"_id"}), [_id |-> coll[1]["_id"]])
         IN  [coll |-> [coll EXCEPT ![1] = new],
              modified_count |-> IF new = coll[1] THEN 0 ELSE 1]

\* collection.replace_one({}, doc), no upsert: the first document is replaced
\* by doc, keeping its _id.
replace_one(coll, doc) ==
    IF coll = <<>> THEN [coll |-> coll, modified_count |-> 0]
    ELSE LET new == Merged(Without(doc, {"_id"}), [_id |-> coll[1]["_id"]])
         IN  [coll |-> [coll EXCEPT ![1] = new],
              modified_count |-> IF new = coll[1] THEN 0 ELSE 1]

\* Mutant: the write is reported as acknowledged, one document counted
\* whether or not one matched.
delete_one_by_id_acknowledged(coll, oid) ==
    IF ~HasId(coll, oid) THEN [coll |-> coll, deleted_count |-> 1]
    ELSE [coll |-> RemoveAt(coll, IndexOfId(coll, oid)), deleted_count |-> 1]

\* collection.delete_one({"_id": oid})
delete_one_by_id(coll, oid) ==
    IF ~HasId(coll, oid) THEN [coll |-> coll, deleted_count |-> 0]
    ELSE [coll |-> RemoveAt(coll, IndexOfId(coll, oid)), deleted_count |-> 1]

\* collection.delete_one({})
delete_one(coll) ==
    IF coll = <<>> THEN [coll |-> coll, deleted_count |-> 0]
    ELSE [coll |-> Tail(coll), deleted_count |-> 1]

\* Mutant: the cursor is limited and never skipped.
find_unskipped(coll, skip, limit) ==
    SubSeq(coll, 1, IF limit < Len(coll) THEN limit ELSE Len(coll))

\* collection.find().skip(skip).limit(limit) read with to_list(length=limit)
find_skip_limit(coll, skip, limit) ==
    SubSeq(coll, skip + 1, IF skip + limit < Len(coll) THEN skip + limit ELSE Len(coll))

\* collection.count_documents({})
count_documents(coll) == Len(coll)

----------------------------------------------------------------------------
(* Request models (src/models.py) *)

RecordFields == {"uf", "qtd"}

\* CRMRecord instances: every field is optional and defaults to None.
RecordInputs ==
    { [uf |-> Str("SP"), qtd |-> None],
      [uf |-> Str("SP"), qtd |-> Num(5)] }

ConfigFields == {"consultor", "status", "servicos", "plano", "pacote_sva"}

\* ConfigModel instances: every field is a list and defaults to the empty list.
ConfigInputs ==
    { [consultor |-> ListV(<<>>), status |-> ListV(<<>>), servicos |-> ListV(<<>>),
       plano |-> ListV(<<>>), pacote_sva |-> ListV(<<>>)],
      [consultor |-> ListV(<<DictV([name |-> Str("Ana"), equipe |-> Str("A")])>>),
       status |-> ListV(<<Str("Ativo")>>),
       servicos |-> ListV(<<>>),
       plano |-> ListV(<<DictV([name |-> Str("Basico"), value |-> Num(99)])>>),
       pacote_sva |-> ListV(<<>>)] }

\* model.model_dump(exclude_none=True)
model_dump(m) == [k \in {f \in DOMAIN m : m[f] # None} |-> m[k]]

----------------------------------------------------------------------------
(* Requests.  A slot holds the request in flight on it: the handler (op),    *)
(* the await it is suspended at (pc) and its local variables.  A response    *)
(* leaves the slot free and is recorded in resp.                             *)

FirstOid == 10

Idle ==
    [op |-> "none", pc |-> "done", oid |-> 0, payload |-> None,
     existing |-> None, status |-> 0, body |-> None]

Suspended(op, pc, oid, payload, existing) ==
    [op |-> op, pc |-> pc, oid |-> oid, payload |-> payload,
     existing |-> existing, status |-> 0, body |-> None]

Response(op, oid, status, body) ==
    [op |-> op, pc |-> "done", oid |-> oid, payload |-> None,
     existing |-> None, status |-> status, body |-> body]

\* raise HTTPException(status_code=status, detail=detail)
HTTPException(op, oid, status, detail) ==
    Response(op, oid, status, [detail |-> Str(detail)])

\* Mutant: without that clause the broad `except Exception` turns the
\* handler's own 400 / 404 into a 500.
Swallowed(out) ==
    IF out.pc = "done" /\ out.status \in {400, 404}
    THEN [out EXCEPT !.status = 500]
    ELSE out

\* except HTTPException: raise -- ahead of the broad `except Exception`, so the
\* handler's own 400 / 404 / 500 leave it as they were raised.
Reraised(out) == out

\* A handler's step ends suspended at its next await, or with its response.
Finish(p, out) ==
    IF out.pc = "done"
    THEN /\ resp' = out
         /\ req' = [req EXCEPT ![p] = Idle]
    ELSE /\ req' = [req EXCEPT ![p] = out]
         /\ UNCHANGED resp

\* The application accepts a request on a free slot while it is serving.
Accepts(p) == lifecycle = "serving" /\ req[p].pc = "done"

At(p, op, pc) == req[p].op = op /\ req[p].pc = pc

\* Candidate {record_id} path parameters: 24 hexadecimal digits of either
\* case, and malformed strings.
IdString(n, digits) == [i \in 1..OidLen |-> IF i = OidLen THEN digits[n + 1] ELSE "0"]

IdInputs ==
    { IdString(n, HexDigits) : n \in FirstOid..(FirstOid + MaxRecords - 1) }
    \cup { IdString(FirstOid, UpperHexDigits) }
    \cup { <<"a", "b", "c">>, [i \in 1..OidLen |-> "g"] }

----------------------------------------------------------------------------
(* Record handlers (src/main.py) *)

\* POST /crm/records, up to the await of insert_one.  The two utcnow() reads
\* are consecutive statements and the store keeps milliseconds, the clock's
\* unit: both stamps are the clock's value at this step.
create_record(p, record, cap) ==
    /\ Accepts(p)
    /\ nextOid < FirstOid + cap
    /\ IF get_collection = "NotConnected"
       THEN /\ Finish(p, HTTPException("create_record", 0, 500, "Erro ao criar registro"))
            /\ UNCHANGED <<records, nextOid>>
       ELSE LET record_dict == Merged(model_dump(record),
                                      [created_at |-> Dt(clock), updated_at |-> Dt(clock)])
            IN  /\ records' = insert_one(records, record_dict, nextOid)
                /\ nextOid' = nextOid + 1
                /\ Finish(p, Suspended("create_record", "find_one", nextOid, None, None))
    /\ UNCHANGED <<client, database, lifecycle, probe, clock, config, deleted, lastPost,
                   norm>>

\* POST /crm/records, the await of find_one and the response
create_record_find_one(p) ==
    /\ At(p, "create_record", "find_one")
    /\ LET inserted_record == find_one_by_id(records, req[p].oid)
       IN  Finish(p, Response("create_record", req[p].oid, 201,
                              serialize_mongo_document(inserted_record)))
    /\ UNCHANGED <<client, database, lifecycle, probe, clock, nextOid, records,
                   config, deleted, lastPost, norm>>

\* POST /crm/records/batch: insert_many is its only await; an empty list makes
\* insert_many raise.
create_records_batch(p, recs, cap) ==
    /\ Accepts(p)
    /\ nextOid + Len(recs) <= FirstOid + cap
    /\ IF get_collection = "NotConnected" \/ recs = <<>>
       THEN /\ Finish(p, HTTPException("create_records_batch", 0, 500,
                                       "Erro ao criar registros"))
            /\ UNCHANGED <<records, nextOid>>
       ELSE LET records_dict ==
                    [i \in 1..Len(recs) |->
                        Merged(model_dump(recs[i]),
                               [created_at |-> Dt(clock), updated_at |-> Dt(clock),
                                _id |-> Oid(nextOid + i - 1)])]
            IN  /\ records' = records \o records_dict
                /\ nextOid' = nextOid + Len(recs)
                /\ Finish(p, Response("create_records_batch", 0, 201,
                                [ids |-> ListV([i \in 1..Len(recs) |->
                                                  Str(StrOfObjectId(nextOid + i - 1))]),
                                 count |-> Num(Len(recs))]))
    /\ UNCHANGED <<client, database, lifecycle, probe, clock, config, deleted, lastPost,
                   norm>>

\* GET /crm/records/{record_id}: find_one is its only await.
get_record_by_id(p, record_id) ==
    /\ Accepts(p)
    /\ Finish(p, Reraised(
          IF get_collection = "NotConnected"
          THEN HTTPException("get_record_by_id", 0, 500, "Erro ao buscar registro")
          ELSE IF ~IsValidObjectId(record_id)
          THEN HTTPException("get_record_by_id", 0, 400, "ID invalido")
          ELSE LET object_id == ObjectId(record_id)
                   record == find_one_by_id(records, object_id)
               IN  IF record = None
                   THEN HTTPException("get_record_by_id", object_id, 404,
                                      "Registro nao encontrado")
                   ELSE Response("get_record_by_id", object_id, 200,
                                 serialize_mongo_document(record))))
    /\ UNCHANGED <<client, database, lifecycle, probe, clock, nextOid, records,
                   config, deleted, lastPost, norm>>

\* PUT /crm/records/{record_id}, up to the await of update_one: the id check,
\* find_one, and the $set document built from the payload.
update_record(p, record_id, record) ==
    /\ Accepts(p)
    /\ Finish(p, Reraised(
          IF get_collection = "NotConnected"
          THEN HTTPException("update_record", 0, 500, "Erro ao atualizar registro")
          ELSE IF ~IsValidObjectId(record_id)
          THEN HTTPException("update_record", 0, 400, "ID invalido")
          ELSE LET object_id == ObjectId(record_id)
                   existing_record == find_one_by_id(records, object_id)
                   dumped == Merged(model_dump(record), [updated_at |-> Dt(clock)])
                   record_dict ==
                       IF "created_at" \notin DOMAIN dumped
                          /\ "created_at" \in DOMAIN existing_record
                       THEN Merged(dumped, [created_at |-> existing_record["created_at"]])
                       ELSE dumped
               IN  IF existing_record = None
                   THEN HTTPException("update_record", object_id, 404,
                                      "Registro nao encontrado")
                   ELSE Suspended("update_record", "update_one", object_id,
                                  record_dict, None)))
    /\ UNCHANGED <<client, database, lifecycle, probe, clock, nextOid, records,
                   config, deleted, lastPost, norm>>

\* PUT /crm/records/{record_id}, the await of update_one
update_record_update_one(p) ==
    /\ At(p, "update_record", "update_one")
    /\ LET result == update_one(records, req[p].oid, req[p].payload)
       IN  /\ records' = result.coll
           /\ Finish(p,
                 IF result.modified_count = 0
                 THEN HTTPException("update_record", req[p].oid, 400,
                                    "Nenhuma alteracao foi feita no registro")
                 ELSE Suspended("update_record", "find_one", req[p].oid,
                                req[p].payload, None))
    /\ UNCHANGED <<client, database, lifecycle, probe, clock, nextOid, config,
                   deleted, lastPost, norm>>

\* PUT /crm/records/{record_id}, the await of the second find_one and the response
update_record_find_one(p) ==
    /\ At(p, "update_record", "find_one")
    /\ LET updated_record == find_one_by_id(records, req[p].oid)
       IN  Finish(p, Response("update_record", req[p].oid, 200,
                              serialize_mongo_document(updated_record)))
    /\ UNCHANGED <<client, database, lifecycle, probe, clock, nextOid, records,
                   config, deleted, lastPost, norm>>

\* DELETE /crm/records/{record_id}, up to the await of delete_one
delete_record(p, record_id) ==
    /\ Accepts(p)
    /\ Finish(p, Reraised(
          IF get_collection = "NotConnected"
          THEN HTTPException("delete_record", 0, 500, "Erro ao deletar registro: ")
          ELSE IF ~IsValidObjectId(record_id)
          THEN HTTPException("delete_record", 0, 400, "ID invalido")
          ELSE LET object_id == ObjectId(record_id)
                   existing_record == find_one_by_id(records, object_id)
               IN  IF existing_record = None
                   THEN HTTPException("delete_record", object_id, 404,
                                      "Registro nao encontrado")
                   ELSE Suspended("delete_record", "delete_one", object_id, None,
                                  serialize_mongo_document(existing_record))))
    /\ UNCHANGED <<client, database, lifecycle, probe, clock, nextOid, records,
                   config, deleted, lastPost, norm>>

\* DELETE /crm/records/{record_id}, the await of delete_one and the response
delete_record_delete_one(p) ==
    /\ At(p, "delete_record", "delete_one")
    /\ LET result == delete_one_by_id(records, req[p].oid)
       IN  /\ records' = result.coll
           /\ IF result.deleted_count = 0
              THEN /\ Finish(p, HTTPException("delete_record", req[p].oid, 500,
                                              "Erro ao deletar registro"))
                   /\ UNCHANGED deleted
              ELSE /\ Finish(p, Response("delete_record", req[p].oid, 200,
                                         req[p].existing))
                   /\ deleted' = deleted \cup {req[p].oid}
    /\ UNCHANGED <<client, database, lifecycle, probe, clock, nextOid, config, lastPost,
                   norm>>

\* GET /crm/records, up to the await of count_documents: the page is read.
get_all_records(p, skip, limit) ==
    /\ Accepts(p)
    /\ Finish(p,
          IF get_collection = "NotConnected"
          THEN HTTPException("get_all_records", 0, 500, "Erro ao buscar registros")
          ELSE LET page == find_skip_limit(records, skip, limit)
                   serialized_records ==
                       [i \in 1..Len(page) |-> DictV(serialize_mongo_document(page[i]))]
               IN  Suspended("get_all_records", "count_documents", 0,
                             [skip |-> Num(skip), limit |-> Num(limit),
                              records |-> ListV(serialized_records)], None))
    /\ UNCHANGED <<client, database, lifecycle, probe, clock, nextOid, records,
                   config, deleted, lastPost, norm>>

\* GET /crm/records, the await of count_documents and the response
get_all_records_count(p) ==
    /\ At(p, "get_all_records", "count_documents")
    /\ LET total == count_documents(records)
       IN  Finish(p, Response("get_all_records", 0, 200,
                              Merged(req[p].payload, [total |-> Num(total)])))
    /\ UNCHANGED <<client, database, lifecycle, probe, clock, nextOid, records,
                   config, deleted, lastPost, norm>>

----------------------------------------------------------------------------
(* Configuration handlers (src/main.py) *)

\* The structure GET /config returns for an empty collection.
EmptyConfig == [f \in ConfigFields |-> ListV(<<>>)]

\* Mutant: the _id is left in the document.
pop_id_kept(doc) == doc

\* config.pop("_id", None)
pop_id(doc) == Without(doc, {"_id"})

\* Mutant: the stamp of the current request is kept.
kept_created_at_now(existing_config) == Dt(clock)

\* existing_config.get("created_at", datetime.utcnow())
kept_created_at(existing_config) ==
    IF "created_at" \in DOMAIN existing_config
    THEN existing_config["created_at"]
    ELSE Dt(clock)

\* GET /config: find_one is its only await.
get_config(p) ==
    /\ Accepts(p)
    /\ Finish(p,
          IF get_config_collection = "NotConnected"
          THEN HTTPException("get_config", 0, 500, "Erro ao buscar configuracao")
          ELSE LET found == find_one(config)
               IN  IF found = None
                   THEN Response("get_config", 0, 200, EmptyConfig)
                   ELSE Response("get_config", 0, 200,
                                 serialize_mongo_document(pop_id(found))))
    /\ UNCHANGED <<client, database, lifecycle, probe, clock, nextOid, records,
                   config, deleted, lastPost, norm>>

\* POST /config, up to the await of replace_one / insert_one: the payload is
\* stamped, find_one decides the branch, an existing created_at is kept.
create_config(p, cfg) ==
    /\ Accepts(p)
    /\ Finish(p, Reraised(
          IF get_config_collection = "NotConnected"
          THEN HTTPException("create_config", 0, 500, "Erro ao salvar configuracao")
          ELSE LET stamped == Merged(model_dump(cfg),
                                     [created_at |-> Dt(clock), updated_at |-> Dt(clock)])
                   existing_config == find_one(config)
               IN  IF existing_config # None
                   THEN Suspended("create_config", "replace_one", 0,
                            Merged(stamped,
                                   [created_at |-> kept_created_at(existing_config)]),
                            None)
                   ELSE Suspended("create_config", "insert_one", 0, stamped, None)))
    /\ UNCHANGED <<client, database, lifecycle, probe, clock, nextOid, records,
                   config, deleted, lastPost, norm>>

\* POST /config, the await of replace_one
create_config_replace_one(p) ==
    /\ At(p, "create_config", "replace_one")
    /\ LET result == replace_one(config, req[p].payload)
       IN  /\ config' = result.coll
           /\ lastPost' = IF result.modified_count = 0 THEN lastPost ELSE None
           /\ Finish(p,
                 IF result.modified_count = 0
                 THEN HTTPException("create_config", 0, 500,
                                    "Erro ao atualizar configuracao")
                 ELSE Suspended("create_config", "find_one", 0, req[p].payload, None))
    /\ UNCHANGED <<client, database, lifecycle, probe, clock, nextOid, records, deleted,
                   norm>>

\* POST /config, the await of insert_one
create_config_insert_one(p, cap) ==
    /\ At(p, "create_config", "insert_one")
    /\ nextOid < FirstOid + cap
    /\ config' = insert_one(config, req[p].payload, nextOid)
    /\ nextOid' = nextOid + 1
    /\ lastPost' = None
    /\ Finish(p, Suspended("create_config", "find_one", 0, req[p].payload, None))
    /\ UNCHANGED <<client, database, lifecycle, probe, clock, records, deleted,
                   norm>>

\* POST /config, the await of the last find_one and the response;
\* updated_config.pop raises when find_one returned None.
create_config_find_one(p) ==
    /\ At(p, "create_config", "find_one")
    /\ LET updated_config == find_one(config)
       IN  IF updated_config = None
           THEN /\ Finish(p, HTTPException("create_config", 0, 500,
                                           "Erro ao salvar configuracao"))
                /\ UNCHANGED lastPost
           ELSE /\ Finish(p, Response("create_config", 0, 201,
                                 [config |-> DictV(serialize_mongo_document(
                                                      pop_id(updated_config)))]))
                /\ lastPost' = Without(req[p].payload, {"created_at", "updated_at", "_id"})
    /\ UNCHANGED <<client, database, lifecycle, probe, clock, nextOid, records,
                   config, deleted, norm>>

\* PUT /config, up to the await of replace_one
update_config(p, cfg) ==
    /\ Accepts(p)
    /\ Finish(p, Reraised(
          IF get_config_collection = "NotConnected"
          THEN HTTPException("update_config", 0, 500, "Erro ao atualizar configuracao")
          ELSE LET existing_config == find_one(config)
               IN  IF existing_config = None
                   THEN HTTPException("update_config", 0, 404,
                                      "Configuracao nao encontrada")
                   ELSE Suspended("update_config", "replace_one", 0,
                            Merged(model_dump(cfg),
                                   [created_at |-> kept_created_at(existing_config),
                                    updated_at |-> Dt(clock)]),
                            None)))
    /\ UNCHANGED <<client, database, lifecycle, probe, clock, nextOid, records,
                   config, deleted, lastPost, norm>>

\* PUT /config, the await of replace_one
update_config_replace_one(p) ==
    /\ At(p, "update_config", "replace_one")
    /\ LET result == replace_one(config, req[p].payload)
       IN  /\ config' = result.coll
           /\ lastPost' = IF result.modified_count = 0 THEN lastPost ELSE None
           /\ Finish(p,
                 IF result.modified_count = 0
                 THEN HTTPException("update_config", 0, 400,
                                    "Nenhuma alteracao foi feita na configuracao")
                 ELSE Suspended("update_config", "find_one", 0, None, None))
    /\ UNCHANGED <<client, database, lifecycle, probe, clock, nextOid, records, deleted,
                   norm>>

\* PUT /config, the await of the last find_one and the response
update_config_find_one(p) ==
    /\ At(p, "update_config", "find_one")
    /\ LET updated_config == find_one(config)
       IN  Finish(p,
              IF updated_config = None
              THEN HTTPException("update_config", 0, 500,
                                 "Erro ao atualizar configuracao")
              ELSE Response("update_config", 0, 200,
                       [config |-> DictV(serialize_mongo_document(
                                            pop_id(updated_config)))]))
    /\ UNCHANGED <<client, database, lifecycle, probe, clock, nextOid, records,
                   config, deleted, lastPost, norm>>

\* DELETE /config, up to the await of delete_one
delete_config(p) ==
    /\ Accepts(p)
    /\ Finish(p, Reraised(
          IF get_config_collection = "NotConnected"
          THEN HTTPException("delete_config", 0, 500, "Erro ao deletar configuracao: ")
          ELSE LET existing_config == find_one(config)
               IN  IF existing_config = None
                   THEN HTTPException("delete_config", 0, 404,
                                      "Configuracao nao encontrada")
                   ELSE Suspended("delete_config", "delete_one", 0, None,
                                  serialize_mongo_document(pop_id(existing_config)))))
    /\ UNCHANGED <<client, database, lifecycle, probe, clock, nextOid, records,
                   config, deleted, lastPost, norm>>

\* DELETE /config, the await of delete_one and the response
delete_config_delete_one(p) ==
    /\ At(p, "delete_config", "delete_one")
    /\ LET result == delete_one(config)
       IN  /\ config' = result.coll
           /\ lastPost' = IF result.deleted_count = 0 THEN lastPost ELSE None
           /\ Finish(p,
                 IF result.deleted_count = 0
                 THEN HTTPException("delete_config", 0, 500,
                                    "Erro ao deletar configuracao")
                 ELSE Response("delete_config", 0, 200,
                               [deleted_config |-> DictV(req[p].existing)]))
    /\ UNCHANGED <<client, database, lifecycle, probe, clock, nextOid, records, deleted,
                   norm>>

----------------------------------------------------------------------------
(* Direct calls of the Document Normalizer (src/main.py) *)

\* No call made yet, doc being the document the first call is given.
NotCalled(doc) == [calls |-> 0, doc |-> doc, arg |-> None, result |-> None]

\* Values that are neither mapping nor sequence: None, a string, an ObjectId
\* and a datetime.
Scalars == {None, Str("x"), Oid(FirstOid), Dt(1)}

\* Sequences of up to MaxItems items: a value of V, then ObjectIds.
Lists(V) ==
    {<<>>} \cup UNION { { [i \in 1..n |-> IF i = 1 THEN v ELSE Oid(FirstOid)] : v \in V }
                        : n \in 1..MaxItems }

\* Documents (Dict[str, Any]) and their values, nested to depth d: the empty
\* mapping, one key, and two keys of which the second holds a datetime.
RECURSIVE Values(_)
RECURSIVE Documents(_)
Documents(d) ==
    {[k \in {} |-> None]}
    \cup { [a |-> v] : v \in Values(d) }
    \cup { [a |-> v, b |-> Dt(1)] : v \in Values(d) }

Values(d) ==
    IF d = 0 THEN Scalars
    ELSE Scalars
         \cup { DictV(x) : x \in Documents(d - 1) }
         \cup { ListV(l) : l \in Lists(Values(d - 1)) }

\* Arguments of serialize_mongo_document: None, or a document.
NormalizerInputs == {None} \cup Documents(MaxDepth)

\* serialize_mongo_document(doc) called directly: first on the given document,
\* then on what the previous call returned.
call_serialize_mongo_document ==
    /\ norm.calls < MaxCalls
    /\ LET arg == IF norm.calls = 0 THEN norm.doc ELSE norm.result
       IN  norm' = [calls |-> norm.calls + 1, doc |-> norm.doc, arg |-> arg,
                    result |-> serialize_mongo_document(arg)]
    /\ UNCHANGED <<client, database, lifecycle, probe, clock, nextOid, records,
                   config, req, resp, deleted, lastPost>>

----------------------------------------------------------------------------
(* Specifications *)

Init ==
    /\ client = "None"
    /\ database = "None"
    /\ lifecycle = "init"
    /\ probe = [fn |-> "none", result |-> "none"]
    /\ clock = 0
    /\ nextOid = FirstOid
    /\ records = <<>>
    /\ config = <<>>
    /\ req = [p \in Procs |-> Idle]
    /\ resp = Idle
    /\ deleted = {}
    /\ lastPost = None
    /\ norm = NotCalled(None)

BatchInputs ==
    {<<>>} \cup UNION { [1..n -> RecordInputs] : n \in 1..MaxBatch }

\* The record handlers, requests running concurrently.
Next ==
    \/ startup_db_client
    \/ Tick
    \/ \E p \in Procs :
          \/ \E record \in RecordInputs : create_record(p, record, MaxRecords)
          \/ create_record_find_one(p)
          \/ \E recs \in BatchInputs : create_records_batch(p, recs, MaxRecords)
          \/ \E id \in IdInputs : get_record_by_id(p, id)
          \/ \E id \in IdInputs, record \in RecordInputs : update_record(p, id, record)
          \/ update_record_update_one(p)
          \/ update_record_find_one(p)
          \/ \E id \in IdInputs : delete_record(p, id)
          \/ delete_record_delete_one(p)

Spec == Init /\ [][Next]_vars

\* The configuration handlers, requests running concurrently.
NextConfig ==
    \/ startup_db_client
    \/ Tick
    \/ \E p \in Procs :
          \/ get_config(p)
          \/ \E cfg \in ConfigInputs : create_config(p, cfg)
          \/ create_config_replace_one(p)
          \/ create_config_insert_one(p, MaxConfigInserts)
          \/ create_config_find_one(p)
          \/ \E cfg \in ConfigInputs : update_config(p, cfg)
          \/ update_config_replace_one(p)
          \/ update_config_find_one(p)
          \/ delete_config(p)
          \/ delete_config_delete_one(p)

SpecConfig == Init /\ [][NextConfig]_vars

\* The whole application serving one request at a time, from startup to
\* shutdown, the accessors being callable in every phase.
NextSeq ==
    \/ startup_db_client
    \/ shutdown_db_client
    \/ call_get_collection
    \/ call_get_config_collection
    \/ Tick
    \/ \E record \in RecordInputs : create_record(1, record, MaxSeqInserts)
    \/ create_record_find_one(1)
    \/ \E id \in IdInputs, record \in RecordInputs : update_record(1, id, record)
    \/ update_record_update_one(1)
    \/ update_record_find_one(1)
    \/ get_config(1)
    \/ \E cfg \in ConfigInputs : create_config(1, cfg)
    \/ create_config_replace_one(1)
    \/ create_config_insert_one(1, MaxSeqInserts)
    \/ create_config_find_one(1)
    \/ \E cfg \in ConfigInputs : update_config(1, cfg)
    \/ update_config_replace_one(1)
    \/ update_config_find_one(1)
    \/ delete_config(1)
    \/ delete_config_delete_one(1)

SpecSeq == Init /\ [][NextSeq]_vars

\* Creation and listing of records, one request at a time.
NextList ==
    \/ startup_db_client
    \/ \E record \in RecordInputs : create_record(1, record, MaxListRecords)
    \/ create_record_find_one(1)
    \/ \E recs \in BatchInputs : create_records_batch(1, recs, MaxListRecords)
    \/ \E skip \in 0..MaxSkip, limit \in 1..MaxLimit : get_all_records(1, skip, limit)
    \/ get_all_records_count(1)

SpecList == Init /\ [][NextList]_vars

\* Creation and deletion of records, requests running concurrently.
NextDelete ==
    \/ startup_db_client
    \/ Tick
    \/ \E p \in Procs :
          \/ \E record \in RecordInputs : create_record(p, record, MaxRecords)
          \/ create_record_find_one(p)
          \/ \E id \in IdInputs : delete_record(p, id)
          \/ delete_record_delete_one(p)

SpecDelete == Init /\ [][NextDelete]_vars

\* The normalizer called on a nested document, and again on its own result.
InitNorm ==
    /\ client = "None"
    /\ database = "None"
    /\ lifecycle = "init"
    /\ probe = [fn |-> "none", result |-> "none"]
    /\ clock = 0
    /\ nextOid = FirstOid
    /\ records = <<>>
    /\ config = <<>>
    /\ req = [p \in Procs |-> Idle]
    /\ resp = Idle
    /\ deleted = {}
    /\ lastPost = None
    /\ norm \in { NotCalled(doc) : doc \in NormalizerInputs }

NextNorm == call_serialize_mongo_document

SpecNorm == InitNorm /\ [][NextNorm]_vars

----------------------------------------------------------------------------
(* Properties *)

Timestamps == {"created_at", "updated_at"}

\* A document's business fields: all but the _id and the two timestamps.
Business(doc) == Without(doc, {"_id"} \cup Timestamps)

Min(a, b) == IF a < b THEN a ELSE b
Max(a, b) == IF a > b THEN a ELSE b

\* C1: in every reachable state, under every interleaving of the /config
\* requests, the configuration collection holds 0 or 1 documents.
C1_ConfigSingleton == Len(config) <= 1

\* The step of PUT /crm/records/{id} on slot p in which update_one modified
\* the record (the update is successful).
UpdateSucceeds(p) ==
    /\ update_record_update_one(p)
    /\ req'[p].pc = "find_one"

\* C2 (as stated): a successful PUT /crm/records/{id} with payload P leaves the
\* stored document with exactly the non-null fields of P as business fields.
C2_ReplacesFullFieldSet ==
    [][\A p \in Procs :
          UpdateSucceeds(p) =>
              Business(find_one_by_id(records', req[p].oid)) = Business(req[p].payload)]_vars

\* C2 (amended): a successful PUT /crm/records/{id} merges its payload P into
\* the stored document: every field of P holds P's value, and every field the
\* prior document had and P omits is still present with its prior value.
C2_MergesPayload ==
    [][\A p \in Procs :
          UpdateSucceeds(p) =>
              LET old == find_one_by_id(records, req[p].oid)
                  new == find_one_by_id(records', req[p].oid)
                  P == req[p].payload
              IN  /\ DOMAIN new = (DOMAIN old) \cup (DOMAIN P)
                  /\ \A f \in DOMAIN P : new[f] = P[f]
                  /\ \A f \in (DOMAIN old) \ (DOMAIN P) : new[f] = old[f]]_vars

\* C2 witness: an update with a payload that omits qtd has succeeded on a
\* record that holds qtd.
C2_Witness ==
    \E p \in Procs :
        /\ At(p, "update_record", "find_one")
        /\ "qtd" \notin DOMAIN req[p].payload
        /\ HasId(records, req[p].oid)
        /\ "qtd" \in DOMAIN find_one_by_id(records, req[p].oid)

\* C3: a PUT /crm/records/{id} whose payload equals the record's stored
\* business fields returns 400 (NoChange) and leaves the stored document as
\* it was.
C3_IdenticalPayloadIsNoChange ==
    [][\A p \in Procs :
          ( /\ update_record_update_one(p)
            /\ HasId(records, req[p].oid)
            /\ Business(req[p].payload) = Business(find_one_by_id(records, req[p].oid)) )
          => (resp'.status = 400 /\ records' = records)]_vars

\* C4: while connect_to_mongo has not succeeded -- not called yet, or failed,
\* its ping included -- a call of get_collection or get_config_collection
\* fails with NotConnected.
C4_AccessorsRequireConnect ==
    (lifecycle \in {"init", "failed"} /\ probe.fn # "none")
        => probe.result = "NotConnected"

\* C5: POST /config never fails on the absence of the configuration document:
\* a step it takes on an empty collection, whatever concurrent DELETE /config
\* emptied it, either leaves the request running or responds 201.
C5_UpsertNeverFailsOnAbsence ==
    [][\A p \in Procs :
          ( /\ config = <<>>
            /\ \/ create_config_replace_one(p)
               \/ create_config_insert_one(p, MaxConfigInserts)
               \/ create_config_find_one(p) )
          => (req'[p].pc # "done" \/ resp'.status = 201)]_vars

\* The step that answers GET /crm/records/{record_id} on slot p.
AnswersGetById(p, record_id) ==
    /\ resp'.op = "get_record_by_id"
    /\ get_record_by_id(p, record_id)

\* C6: GET /crm/records/{id} answers 400 when the id is malformed, 404 when it
\* is well formed and no document has it, and otherwise 200 with the
\* normalized document; a 400 or 404 never leaves as a 500.
C6_GetByIdOutcomes ==
    [][\A p \in Procs, id \in IdInputs :
          AnswersGetById(p, id) =>
              /\ IF ~(Len(id) = OidLen /\ \A i \in 1..Len(id) : IsHexChar(id[i]))
                 THEN resp'.status = 400
                 ELSE IF ~\E i \in 1..Len(records) : records[i]["_id"] = Oid(ObjectId(id))
                 THEN resp'.status = 404
                 ELSE /\ resp'.status = 200
                      /\ \E i \in 1..Len(records) :
                            /\ records[i]["_id"] = Oid(ObjectId(id))
                            /\ resp'.body = serialize_mongo_document(records[i])]_vars

\* C6 witness: a GET by id has answered 200 with a normalized document, whose
\* _id is the string form of the identifier.
C6_Witness ==
    /\ resp.op = "get_record_by_id"
    /\ resp.status = 200
    /\ resp.body["_id"] = Str(StrOfObjectId(resp.oid))

\* C7: once DELETE /crm/records/{id} has returned 200 for an id, every later
\* GET /crm/records/{id} for that id returns 404.
C7_DeletedStaysGone ==
    [][\A p \in Procs, id \in IdInputs :
          ( /\ AnswersGetById(p, id)
            /\ IsValidObjectId(id)
            /\ ObjectId(id) \in deleted )
          => resp'.status = 404]_vars

\* C7 witness: a GET has answered 404 for an id whose DELETE returned 200,
\* a record created later being in the collection.
C7_Witness ==
    /\ resp.op = "get_record_by_id"
    /\ resp.status = 404
    /\ resp.oid \in deleted
    /\ \E i \in 1..Len(records) : records[i]["_id"].v > resp.oid

\* Every document of `before` still in `after` has the created_at it had.
CreatedAtKept(before, after) ==
    \A i \in 1..Len(before), j \in 1..Len(after) :
        before[i]["_id"] = after[j]["_id"]
            => after[j]["created_at"] = before[i]["created_at"]

\* C8: with one request served at a time, no step of PUT /crm/records/{id},
\* POST /config or PUT /config changes the created_at of a document that is
\* in its collection: it keeps the value stamped at its insertion.
C8_CreatedAtPreserved ==
    [][CreatedAtKept(records, records') /\ CreatedAtKept(config, config')]_vars

\* C8 witness: a record and the configuration document have both been
\* updated after the millisecond of their insertion.
C8_Witness ==
    /\ \E i \in 1..Len(records) : records[i]["updated_at"] # records[i]["created_at"]
    /\ \E i \in 1..Len(config) : config[i]["updated_at"] # config[i]["created_at"]

\* C9: with no concurrent write, GET /crm/records with skip s and limit l on
\* a collection of T records returns min(l, max(0, T - s)) records and
\* total = T.
C9_ListPage ==
    [][get_all_records_count(1) =>
          LET T == Len(records)
              s == resp'.body["skip"].v
              l == resp'.body["limit"].v
          IN  /\ resp'.status = 200
              /\ Len(resp'.body["records"].v) = Min(l, Max(0, T - s))
              /\ resp'.body["total"] = Num(T)]_vars

\* C9 witness: skip = 0, limit = N on N + 5 records returned N records and
\* total = N + 5, for N = 2.
C9_Witness ==
    /\ resp.op = "get_all_records"
    /\ resp.status = 200
    /\ resp.body["skip"] = Num(0)
    /\ resp.body["limit"] = Num(2)
    /\ Len(resp.body["records"].v) = 2
    /\ resp.body["total"] = Num(7)
    /\ Len(records) = 7

\* C10: a GET /config that follows a successful POST /config with payload P,
\* no write in between, returns P's five fields, the two timestamps and
\* nothing else -- no _id, nothing of an earlier configuration.
C10_GetAfterPost ==
    [][(get_config(1) /\ lastPost # None) =>
          /\ resp'.status = 200
          /\ DOMAIN resp'.body = ConfigFields \cup Timestamps
          /\ \A f \in ConfigFields : resp'.body[f] = lastPost[f]
          /\ \A f \in Timestamps : resp'.body[f].t = "str"]_vars

\* C10 witness: a GET /config has answered after a POST /config that replaced
\* an existing document by a non-empty configuration.
C10_Witness ==
    /\ resp.op = "get_config"
    /\ lastPost # None
    /\ lastPost["status"] # ListV(<<>>)
    /\ Len(config) = 1
    /\ config[1]["updated_at"] # config[1]["created_at"]
    /\ Business(resp.body) = lastPost

\* A step of PUT /config on slot p: the existence check, replace_one, or the
\* last find_one.
PutConfigStep(p) ==
    \/ \E cfg \in ConfigInputs : update_config(p, cfg)
    \/ update_config_replace_one(p)
    \/ update_config_find_one(p)

\* C11: PUT /config never creates a configuration document: on an empty
\* collection its existence check answers 404, and no step it takes, whatever
\* DELETE /config runs beside it, adds a document to the collection -- an
\* empty collection stays empty.
C11_PutNeverCreates ==
    [][\A p \in Procs :
          /\ ( /\ config = <<>>
                /\ \E cfg \in ConfigInputs : update_config(p, cfg) )
             => (resp'.op = "update_config" /\ resp'.status = 404 /\ config' = <<>>)
          /\ PutConfigStep(p)
             => (Len(config') = Len(config) /\ nextOid' = nextOid)]_vars

\* C11 witness: a PUT /config found the document, a concurrent DELETE /config
\* removed it, and the PUT's replace_one then ran on the empty collection: it
\* answered and the collection is still empty.
C11_Witness ==
    /\ resp.op = "update_config"
    /\ resp.status = 400
    /\ config = <<>>

\* C12: the Document Normalizer is idempotent: normalizing what it returned
\* for a nested document returns that same value, normalize(normalize(D)) =
\* normalize(D).
C12_NormalizerIdempotent ==
    norm.calls >= 2 => norm.result = norm.arg

\* C12 witness: the normalizer has run twice on a document holding a sequence
\* whose items are a sequence of identifiers and an identifier, and a
\* timestamp: the item and the timestamp are converted, the inner sequence
\* passes through as it is.
C12_Witness ==
    /\ norm.calls = 2
    /\ norm.doc = [a |-> ListV(<<ListV(<<Oid(FirstOid), Oid(FirstOid)>>), Oid(FirstOid)>>),
                   b |-> Dt(1)]
    /\ norm.result = [a |-> ListV(<<ListV(<<Oid(FirstOid), Oid(FirstOid)>>),
                                    Str("00000000000000000000000a")>>),
                      b |-> Str("1970-01-01T00:00:00.001000")]

\* The step in which the existence check of DELETE /crm/records/{record_id}
\* on slot p answers the request.
AnswersDelete(p, record_id) ==
    /\ resp'.op = "delete_record"
    /\ req[p].pc = "done"
    /\ delete_record(p, record_id)

\* C13: of the DELETE /crm/records/{id} requests that run concurrently for
\* one id, the one whose delete_one removes the document returns 200 with the
\* document as it was before the deletion, and no other returns 200: a
\* delete_one that removes nothing returns 500 and an existence check that
\* runs after the removal returns 404, both leaving the collection as it is.
C13_OneDeleteSucceeds ==
    [][\A p \in Procs :
          /\ delete_record_delete_one(p) =>
                IF \E i \in 1..Len(records) : records[i]["_id"] = Oid(req[p].oid)
                THEN /\ resp'.status = 200
                     /\ req[p].oid \notin deleted
                     /\ \E i \in 1..Len(records) :
                           /\ records[i]["_id"] = Oid(req[p].oid)
                           /\ resp'.body = serialize_mongo_document(records[i])
                           /\ records' = RemoveAt(records, i)
                ELSE /\ resp'.status = 500
                     /\ records' = records
          /\ \A id \in IdInputs :
                ( /\ AnswersDelete(p, id)
                  /\ IsValidObjectId(id)
                  /\ ObjectId(id) \in deleted )
                => (resp'.status = 404 /\ records' = records)]_vars

\* C13 witness: two DELETE requests for one id both found the document; the
\* delete_one of one removed it and returned 200, the delete_one of the other
\* then removed nothing and returned 500.
C13_Witness ==
    /\ resp.op = "delete_record"
    /\ resp.status = 500
    /\ resp.oid \in deleted

====
